---- MODULE Spec2Model ----
(***************************************************************************)
(* Model of the two stores of the voice assistant:                         *)
(*   MemoryStore (memory.py): SQLite "memories" ledger + FAISS flat index  *)
(*   ChatStore   (chat_store.py): SQLite "sessions" and "messages" tables  *)
(* Each Python statement of a method is one atomic step of the calling     *)
(* thread. In MemoryStore a `with self.lock:` block is an acquire step      *)
(* followed by the body, which releases the lock when it ends. ChatStore    *)
(* touches its connection only inside such blocks, so each block of         *)
(* ChatStore is one step that needs the lock free and leaves it free.       *)
(***************************************************************************)
EXTENDS Integers, Sequences, FiniteSets, TLC

VARIABLES
    store,      \* which store this run exercises: the two share no state
    ledger,     \* memories table: texts in ascending id order (memory.db, durable)
    disk,       \* faiss.index file: the serialized index (durable)
    dim,        \* MemoryStore.dim   (0 stands for None)
    index,      \* MemoryStore.index (ok = FALSE stands for None)
    mlock,      \* MemoryStore.lock: the holding thread, or NoThread
    mth,        \* per thread: position inside MemoryStore.add / search
    acked,      \* history: <<text, vector>> of every add that returned
                \* (mth[t].mut, also history: which of ledger, index and
                \* index file ("disk") t's call has written so far)
    clean,      \* history: no add has raised and no crash happened so far
    boots,      \* number of process restarts so far
    other,      \* a second MemoryStore object on the same files, and the
                \* position of its session's thread inside its add
    closed,     \* close() has closed the SQLite connection of the store
    sessions,   \* sessions table: user_id -> created_at, -1 when there is no row
    messages,   \* messages table: rows in ascending id order (chat_history.db)
    clk,        \* ChatStore.lock: the holding thread, or NoThread
    cth         \* per thread: position inside a ChatStore method

memVars == <<ledger, disk, dim, index, mlock, mth, acked, clean, boots, other>>
chatVars == <<sessions, messages, clk, cth>>
vars == <<store, ledger, disk, dim, index, mlock, mth, acked, clean, boots,
          other, closed, sessions, messages, clk, cth>>

----------------------------------------------------------------------------
(* Bounds of the model *)

MaxLedger == 2      \* rows the ledger may hold
MaxCrashes == 1     \* process restarts explored
MaxMsgs == 2        \* rows the messages table may hold
MaxLiveRows == 1    \* rows of ledger and of messages in the runs checked for
                    \* termination

Threads == {"t1", "t2"}
NoThread == "none"

(* Inputs: texts are sequences of characters. *)
WS == " "
RawTexts == { <<>>, <<WS>>, <<"a">>, <<WS, "b", WS>> }
Queries == { <<WS>>, <<"a">>, <<"b">> }
Ks == {1, 2}
(* Vector lengths the embedding endpoint may answer with (the model behind *)
(* EMBED_MODEL may be replaced while the process runs).                    *)
Dims == {2, 3}

(* Values time.time() may return: the wall clock is not monotonic *)
Stamps == {0, 1}

Uids == {"u1", "u2"}
(* "system" stands for every role other than the two the store accepts *)
Roles == {"user", "assistant", "system"}
(* Message texts; NoText stands for None *)
NoText == <<"None">>
MsgTexts == { NoText, <<>>, <<WS>>, <<WS, "a">> }
(* limit arguments of load_history; given = FALSE stands for None *)
NoLimit == [given |-> FALSE, n |-> 0]
Limits == {NoLimit} \cup {[given |-> TRUE, n |-> i] : i \in {0, 1}}

----------------------------------------------------------------------------
(* Pure functions *)

RECURSIVE LStrip(_)
LStrip(s) == IF s # <<>> /\ Head(s) = WS THEN LStrip(Tail(s)) ELSE s

RECURSIVE RStrip(_)
RStrip(s) ==
    IF s # <<>> /\ s[Len(s)] = WS THEN RStrip(SubSeq(s, 1, Len(s) - 1)) ELSE s

(* the text is empty or holds whitespace only *)
IsBlank(s) == \A i \in 1..Len(s) : s[i] = WS

(* the text handed on as it came *)
StripNone(s) == s

(* str.strip() *)
Strip(s) == RStrip(LStrip(s))

RECURSIVE CountOf(_, _)
CountOf(c, s) ==
    IF s = <<>> THEN 0
    ELSE (IF Head(s) = c THEN 1 ELSE 0) + CountOf(c, Tail(s))

(* A vector v / sqrt(n2) is kept as the pair (v, n2), so that unit vectors  *)
(* are exact: a raw embedding has n2 = 1.                                   *)
Vec(v) == [v |-> v, n2 |-> 1]
NoVec == [v |-> <<>>, n2 |-> 1]
VDim(x) == Len(x.v)

(* ollama_embed: the degenerate [0.0] for blank text, else the endpoint's   *)
(* answer, a deterministic function of the text, of length d.               *)
Embed(t, d) ==
    IF Strip(t) = <<>> THEN Vec(<<0>>)
    ELSE Vec([i \in 1..d |->
                IF i = 1 THEN CountOf("a", Strip(t))
                ELSE IF i = 2 THEN CountOf("b", Strip(t))
                ELSE Len(Strip(t))])

RECURSIVE SumSq(_)
SumSq(v) == IF v = <<>> THEN 0 ELSE Head(v) * Head(v) + SumSq(Tail(v))

RECURSIVE Dot(_, _)
Dot(a, b) ==
    IF a = <<>> \/ b = <<>> THEN 0
    ELSE Head(a) * Head(b) + Dot(Tail(a), Tail(b))

(* _normalize: v / ||v||, the zero vector unchanged *)
Normalize(x) ==
    IF SumSq(x.v) = 0 THEN x ELSE [v |-> x.v, n2 |-> x.n2 * SumSq(x.v)]

NoIndex == [ok |-> FALSE, d |-> 0, vecs |-> <<>>]
(* faiss.IndexFlatIP(d) *)
IndexFlatIP(d) == [ok |-> TRUE, d |-> d, vecs |-> <<>>]
NTotal(ix) == Len(ix.vecs)

(* Inner-product order of two stored unit vectors against the query q:      *)
(* a.v.q / sqrt(a.n2) > b.v.q / sqrt(b.n2), compared on signed squares.     *)
SignedSq(s) == IF s >= 0 THEN s * s ELSE 0 - (s * s)
ScoreGreater(a, b, q) ==
    SignedSq(Dot(a.v, q.v)) * b.n2 > SignedSq(Dot(b.v, q.v)) * a.n2

(* position i comes before position j in the result of a search *)
Before(vecs, q, i, j) ==
    \/ ScoreGreater(vecs[i], vecs[j], q)
    \/ /\ ~ScoreGreater(vecs[j], vecs[i], q)
       /\ i < j

RankOf(vecs, q, i) == Cardinality({j \in 1..Len(vecs) : Before(vecs, q, j, i)})

(* index.search(q, k): the 0-based positions of the k best vectors, best    *)
(* first, padded with -1 when the index holds fewer than k vectors          *)
TopK(vecs, q, k) ==
    [r \in 1..k |->
        IF r <= Len(vecs)
        THEN (CHOOSE i \in 1..Len(vecs) : RankOf(vecs, q, i) = r - 1) - 1
        ELSE 0 - 1]

RECURSIVE RowsAtOrBlank(_, _)
(* a position that is out of range yields an empty text *)
RowsAtOrBlank(rows, idxs) ==
    IF idxs = <<>> THEN <<>>
    ELSE IF 0 <= Head(idxs) /\ Head(idxs) < Len(rows)
         THEN <<rows[Head(idxs) + 1]>> \o RowsAtOrBlank(rows, Tail(idxs))
         ELSE <<(<<>>)>> \o RowsAtOrBlank(rows, Tail(idxs))

RECURSIVE RowsAt(_, _)
(* search, lines 104-108: the texts at the positions that are in range *)
RowsAt(rows, idxs) ==
    IF idxs = <<>> THEN <<>>
    ELSE IF 0 <= Head(idxs) /\ Head(idxs) < Len(rows)
         THEN <<rows[Head(idxs) + 1]>> \o RowsAt(rows, Tail(idxs))
         ELSE RowsAt(rows, Tail(idxs))

----------------------------------------------------------------------------
(* Thread records *)

MIdle ==
    [pc |-> "idle", op |-> "none", raw |-> <<>>, blank |-> FALSE,
     text |-> <<>>, emb |-> NoVec,
     k |-> 0, idxs |-> <<>>, res |-> "none", out |-> <<>>,
     called |-> FALSE, mut |-> {}, emp0 |-> FALSE]

(* the second MemoryStore object before its session has created it *)
NotOpen ==
    [pc |-> "closed", index |-> NoIndex, dim |-> 0, text |-> <<>>, emb |-> NoVec]

CIdle ==
    [pc |-> "idle", op |-> "none", uid |-> "none", role |-> "none",
     blank |-> FALSE, text |-> <<>>, limit |-> NoLimit, res |-> "none",
     badrole |-> FALSE]

Init ==
    /\ store \in {"memory", "chat"}
    /\ ledger = <<>>
    /\ disk = NoIndex
    /\ dim = 0
    /\ index = NoIndex
    /\ mlock = NoThread
    /\ mth = [t \in Threads |-> MIdle]
    /\ acked = {}
    /\ clean = TRUE
    /\ boots = 0
    /\ other = NotOpen
    /\ closed = FALSE
    /\ sessions = [u \in Uids |-> 0 - 1]
    /\ messages = <<>>
    /\ clk = NoThread
    /\ cth = [t \in Threads |-> CIdle]

----------------------------------------------------------------------------
(* MemoryStore.add *)

(* a step of thread t inside MemoryStore, leaving t at r *)
MSet(t, r) ==
    /\ store = "memory"
    /\ store' = store
    /\ mth' = [mth EXCEPT ![t] = r]
    /\ other' = other
    /\ closed' = closed

(* The call returns or raises: locals are dropped, the outcome is kept. *)
MReturn(t, res, mut) ==
    [mth[t] EXCEPT !.pc = "idle", !.emb = NoVec, !.idxs = <<>>, !.k = 0,
                   !.raw = <<>>, !.text = <<>>, !.res = res, !.mut = mut]

AddsInFlight ==
    Cardinality({u \in Threads : mth[u].op = "add" /\ mth[u].pc # "idle"})
      + (IF other.pc \in {"embed", "insert", "idxadd"} THEN 1 ELSE 0)

(* add, lines 73-75: strip the text, return on empty text *)
AddCall(t) ==
    /\ mth[t].pc = "idle"
    /\ \E raw \in RawTexts :
         LET text == Strip(raw)
             r == [MIdle EXCEPT !.op = "add", !.raw = raw, !.text = text,
                                !.blank = IsBlank(raw)]
         IN IF text = <<>>
            THEN MSet(t, [r EXCEPT !.res = "ok", !.raw = <<>>])
            ELSE /\ Len(ledger) + AddsInFlight < MaxLedger
                 /\ MSet(t, [r EXCEPT !.pc = "embed"])
    /\ UNCHANGED <<ledger, disk, dim, index, mlock, acked, clean, boots>>
    /\ UNCHANGED chatVars

(* the row written before the embedding endpoint is asked *)
AddEmbedLate(t) ==
    /\ mth[t].pc = "embed"
    /\ \/ /\ MSet(t, [MReturn(t, "EmbeddingUnavailable", mth[t].mut \cup {"ledger"})
                        EXCEPT !.called = TRUE])
          /\ ledger' = Append(ledger, mth[t].text)
          /\ clean' = FALSE
       \/ /\ \E d \in Dims :
               MSet(t, [mth[t] EXCEPT !.pc = IF dim = 0 THEN "setdim" ELSE "lock",
                                      !.called = TRUE,
                                      !.emb = Normalize(Embed(mth[t].text, d))])
          /\ UNCHANGED <<ledger, clean>>
    /\ UNCHANGED <<disk, dim, index, mlock, acked, boots>>
    /\ UNCHANGED chatVars

(* add, lines 77-79: the embedding call, made without the lock; it raises, *)
(* or answers with a vector of some length, and then self.dim is tested;    *)
(* the local emb = _normalize(emb) of line 83 needs no step of its own      *)
AddEmbed(t) ==
    /\ mth[t].pc = "embed"
    /\ \/ /\ MSet(t, [MReturn(t, "EmbeddingUnavailable", mth[t].mut)
                        EXCEPT !.called = TRUE])
          /\ clean' = FALSE
       \/ /\ \E d \in Dims :
               MSet(t, [mth[t] EXCEPT !.pc = IF dim = 0 THEN "setdim" ELSE "lock",
                                      !.called = TRUE,
                                      !.emb = Normalize(Embed(mth[t].text, d))])
          /\ UNCHANGED clean
    /\ UNCHANGED <<ledger, disk, dim, index, mlock, acked, boots>>
    /\ UNCHANGED chatVars

(* add, line 80: self.dim = emb.shape[0] *)
AddSetDim(t) ==
    /\ mth[t].pc = "setdim"
    /\ dim' = VDim(mth[t].emb)
    /\ MSet(t, [mth[t] EXCEPT !.pc = "newidx"])
    /\ UNCHANGED <<ledger, disk, index, mlock, acked, clean, boots>>
    /\ UNCHANGED chatVars

(* add, line 81: self.index = faiss.IndexFlatIP(self.dim) *)
AddNewIndex(t) ==
    /\ mth[t].pc = "newidx"
    /\ index' = IndexFlatIP(dim)
    /\ MSet(t, [mth[t] EXCEPT !.pc = "lock", !.mut = @ \cup {"index"}])
    /\ UNCHANGED <<ledger, disk, dim, mlock, acked, clean, boots>>
    /\ UNCHANGED chatVars

(* the INSERT not committed: the ledger keeps no row of this add *)
AddInsertNoRow(t) ==
    /\ mth[t].pc = "insert"
    /\ mlock' = NoThread
    /\ MSet(t, [mth[t] EXCEPT !.pc = "idxadd"])
    /\ UNCHANGED <<ledger, disk, dim, index, acked, clean, boots>>
    /\ UNCHANGED chatVars

(* add, line 85: with self.lock *)
AddAcquire(t) ==
    /\ mth[t].pc = "lock"
    /\ mlock = NoThread
    /\ mlock' = t
    /\ MSet(t, [mth[t] EXCEPT !.pc = "insert"])
    /\ UNCHANGED <<ledger, disk, dim, index, acked, clean, boots>>
    /\ UNCHANGED chatVars

(* add, lines 86-88: INSERT INTO memories, commit, and the lock is released; *)
(* on a closed connection con.cursor() raises sqlite3.ProgrammingError and  *)
(* the with statement releases the lock                                     *)
AddInsert(t) ==
    /\ mth[t].pc = "insert"
    /\ mlock' = NoThread
    /\ IF closed
       THEN /\ MSet(t, MReturn(t, "ProgrammingError", mth[t].mut))
            /\ clean' = FALSE
            /\ UNCHANGED ledger
       ELSE /\ ledger' = Append(ledger, mth[t].text)
            /\ MSet(t, [mth[t] EXCEPT !.pc = "idxadd", !.mut = @ \cup {"ledger"}])
            /\ UNCHANGED clean
    /\ UNCHANGED <<disk, dim, index, acked, boots>>
    /\ UNCHANGED chatVars

(* add, line 90: self.index.add(emb). With self.index still None the call   *)
(* raises AttributeError; faiss asserts that the vector has the index's     *)
(* dimension and raises otherwise.                                          *)
AddIndexAdd(t) ==
    /\ mth[t].pc = "idxadd"
    /\ IF ~index.ok
       THEN /\ MSet(t, MReturn(t, "AttributeError", mth[t].mut))
            /\ clean' = FALSE
            /\ UNCHANGED index
       ELSE IF VDim(mth[t].emb) = index.d
       THEN /\ index' = [index EXCEPT !.vecs = Append(@, mth[t].emb)]
            /\ MSet(t, [mth[t] EXCEPT !.pc = "save", !.mut = @ \cup {"index"}])
            /\ UNCHANGED clean
       ELSE /\ MSet(t, MReturn(t, "DimensionMismatch", mth[t].mut))
            /\ clean' = FALSE
            /\ UNCHANGED index
    /\ UNCHANGED <<ledger, disk, dim, mlock, acked, boots>>
    /\ UNCHANGED chatVars

(* _save_index, lines 62-64 *)
SaveIndex == IF index.ok THEN index ELSE disk

(* add, line 91: self._save_index(), and add returns *)
AddSave(t) ==
    /\ mth[t].pc = "save"
    /\ disk' = SaveIndex
    /\ acked' = acked \cup {<<mth[t].text, mth[t].emb>>}
    /\ MSet(t, MReturn(t, "ok", mth[t].mut \cup {"disk"}))
    /\ UNCHANGED <<ledger, dim, index, mlock, clean, boots>>
    /\ UNCHANGED chatVars

(* The process stops at any point and is started again: __init__, lines     *)
(* 39-60, opens the ledger and reads the index file if there is one.        *)
Restart ==
    /\ store = "memory"
    /\ store' = store
    /\ boots < MaxCrashes
    /\ boots' = boots + 1
    /\ index' = disk
    /\ dim' = disk.d
    /\ mlock' = NoThread
    /\ mth' = [t \in Threads |-> MIdle]
    /\ other' = NotOpen
    /\ closed' = FALSE
    /\ clean' = FALSE
    /\ UNCHANGED <<ledger, disk, acked>>
    /\ UNCHANGED chatVars

----------------------------------------------------------------------------
(* MemoryStore.search *)

(* only `self.index is None` tested *)
SearchCallNoCount(t) ==
    /\ mth[t].pc = "idle"
    /\ \E q \in Queries, k \in Ks :
         LET r == [MIdle EXCEPT !.op = "search", !.raw = q, !.text = q, !.k = k,
                                !.blank = IsBlank(q)]
         IN IF ~index.ok
            THEN MSet(t, [r EXCEPT !.res = "ok", !.emp0 = TRUE, !.k = 0,
                                   !.raw = <<>>, !.text = <<>>])
            ELSE MSet(t, [r EXCEPT !.pc = "sembed"])
    /\ UNCHANGED <<ledger, disk, dim, index, mlock, acked, clean, boots>>
    /\ UNCHANGED chatVars

(* search, lines 94-95: return [] when there is no index or it is empty *)
SearchCall(t) ==
    /\ mth[t].pc = "idle"
    /\ \E q \in Queries, k \in Ks :
         LET r == [MIdle EXCEPT !.op = "search", !.raw = q, !.text = q, !.k = k,
                                !.blank = IsBlank(q)]
         IN IF ~index.ok \/ NTotal(index) = 0
            THEN MSet(t, [r EXCEPT !.res = "ok", !.emp0 = TRUE, !.k = 0,
                                   !.raw = <<>>, !.text = <<>>])
            ELSE MSet(t, [r EXCEPT !.pc = "sembed"])
    /\ UNCHANGED <<ledger, disk, dim, index, mlock, acked, clean, boots>>
    /\ UNCHANGED chatVars

(* search, lines 97-101: the embedding call and the local normalization,   *)
(* then self.index.search(q, k); faiss asserts that the query has the       *)
(* index's dimension and raises otherwise. For a blank query ollama_embed   *)
(* answers [0.0] without asking the endpoint, so it cannot fail.            *)
SearchEmbed(t) ==
    /\ mth[t].pc = "sembed"
    /\ \/ /\ Strip(mth[t].text) # <<>>
          /\ MSet(t, [MReturn(t, "EmbeddingUnavailable", mth[t].mut)
                        EXCEPT !.called = TRUE])
       \/ \E d \in Dims :
            LET q == Normalize(Embed(mth[t].text, d))
            IN IF VDim(q) = index.d
               THEN MSet(t, [mth[t] EXCEPT !.pc = "slock", !.called = TRUE,
                                           !.emb = q,
                                           !.idxs = TopK(index.vecs, q, mth[t].k)])
               ELSE MSet(t, [MReturn(t, "DimensionMismatch", mth[t].mut)
                               EXCEPT !.called = TRUE])
    /\ UNCHANGED <<ledger, disk, dim, index, mlock, acked, clean, boots>>
    /\ UNCHANGED chatVars

(* _rows_in_insert_order, line 67: with self.lock *)
SearchAcquire(t) ==
    /\ mth[t].pc = "slock"
    /\ mlock = NoThread
    /\ mlock' = t
    /\ MSet(t, [mth[t] EXCEPT !.pc = "srows"])
    /\ UNCHANGED <<ledger, disk, dim, index, acked, clean, boots>>
    /\ UNCHANGED chatVars

(* _rows_in_insert_order, lines 68-70, then search, lines 104-108; on a     *)
(* closed connection con.cursor() raises and the lock is released           *)
SearchRows(t) ==
    /\ mth[t].pc = "srows"
    /\ mlock' = NoThread
    /\ MSet(t, IF closed
               THEN MReturn(t, "ProgrammingError", mth[t].mut)
               ELSE [MReturn(t, "ok", mth[t].mut)
                       EXCEPT !.out = RowsAt(ledger, mth[t].idxs)])
    /\ UNCHANGED <<ledger, disk, dim, index, acked, clean, boots>>
    /\ UNCHANGED chatVars

----------------------------------------------------------------------------
(* MemoryStore.close *)

(* close, line 110: the call is made *)
CloseCall(t) ==
    /\ mth[t].pc = "idle"
    /\ MSet(t, [MIdle EXCEPT !.op = "close", !.pc = "clock"])
    /\ UNCHANGED <<ledger, disk, dim, index, mlock, acked, clean, boots>>
    /\ UNCHANGED chatVars

(* close, line 111: with self.lock *)
CloseAcquire(t) ==
    /\ mth[t].pc = "clock"
    /\ mlock = NoThread
    /\ mlock' = t
    /\ MSet(t, [mth[t] EXCEPT !.pc = "closing"])
    /\ UNCHANGED <<ledger, disk, dim, index, acked, clean, boots>>
    /\ UNCHANGED chatVars

(* the lock still held when close returns *)
CloseSaveKeepsLock(t) ==
    /\ mth[t].pc = "closing"
    /\ store = "memory"
    /\ store' = store
    /\ disk' = SaveIndex
    /\ closed' = TRUE
    /\ mth' = [mth EXCEPT ![t] = MReturn(t, "ok", {"disk"})]
    /\ UNCHANGED <<ledger, dim, index, mlock, acked, clean, boots, other>>
    /\ UNCHANGED chatVars

(* close, lines 112-113: _save_index(), which takes no lock, con.close(),   *)
(* which is harmless on a closed connection, and the lock is released       *)
CloseSave(t) ==
    /\ mth[t].pc = "closing"
    /\ store = "memory"
    /\ store' = store
    /\ disk' = SaveIndex
    /\ closed' = TRUE
    /\ mlock' = NoThread
    /\ mth' = [mth EXCEPT ![t] = MReturn(t, "ok", {"disk"})]
    /\ UNCHANGED <<ledger, dim, index, acked, clean, boots, other>>
    /\ UNCHANGED chatVars

MemNext ==
    \/ \E t \in Threads : AddCall(t)
    \/ \E t \in Threads : AddEmbed(t)
    \/ \E t \in Threads : AddSetDim(t)
    \/ \E t \in Threads : AddNewIndex(t)
    \/ \E t \in Threads : AddAcquire(t)
    \/ \E t \in Threads : AddInsert(t)
    \/ \E t \in Threads : AddIndexAdd(t)
    \/ \E t \in Threads : AddSave(t)
    \/ \E t \in Threads : SearchCall(t)
    \/ \E t \in Threads : SearchEmbed(t)
    \/ \E t \in Threads : SearchAcquire(t)
    \/ \E t \in Threads : SearchRows(t)
    \/ Restart

MemInit == Init /\ store = "memory"

MemSpec == MemInit /\ [][MemNext]_vars

----------------------------------------------------------------------------
(* Several MemoryStore objects on the same files: every Streamlit session   *)
(* creates its own (streamlit_app.py, lines 72-73) and runs its calls on    *)
(* one thread. `index`, `dim` and thread Session1 stand for the object of   *)
(* one session, `other` for the object of another. The fields of `other`    *)
(* are touched by its own thread only, so the statements of add that work   *)
(* on them take no step of their own; the ledger and the index file are     *)
(* shared with the first object. faiss.write_index is taken to replace the  *)
(* file in one step.                                                        *)

Session1 == "t1"

(* a step of the other session, leaving its object and thread at r *)
OSet(r) ==
    /\ store = "memory"
    /\ store' = store
    /\ other' = r
    /\ UNCHANGED <<dim, index, mlock, mth, acked, boots, closed>>
    /\ UNCHANGED chatVars

(* __init__, lines 55-60, in a session that has no store object yet *)
OtherOpen ==
    /\ other.pc = "closed"
    /\ OSet([NotOpen EXCEPT !.pc = "idle", !.index = disk, !.dim = disk.d])
    /\ UNCHANGED <<ledger, disk, clean>>

(* add, lines 73-75 *)
OtherAddCall ==
    /\ other.pc = "idle"
    /\ \E raw \in RawTexts :
         IF Strip(raw) = <<>>
         THEN OSet(other)
         ELSE /\ Len(ledger) + AddsInFlight < MaxLedger
              /\ OSet([other EXCEPT !.pc = "embed", !.text = Strip(raw)])
    /\ UNCHANGED <<ledger, disk, clean>>

(* add, lines 77-83: the embedding call; with self.dim None the dimension   *)
(* is taken from the vector and the index is created                        *)
OtherEmbed ==
    /\ other.pc = "embed"
    /\ \/ /\ OSet([other EXCEPT !.pc = "idle", !.text = <<>>])
          /\ clean' = FALSE
       \/ /\ \E d \in Dims :
               LET emb == Normalize(Embed(other.text, d))
               IN OSet([other EXCEPT
                          !.pc = "insert",
                          !.emb = emb,
                          !.dim = IF other.dim = 0 THEN VDim(emb) ELSE @,
                          !.index = IF other.dim = 0
                                    THEN IndexFlatIP(VDim(emb)) ELSE @])
          /\ UNCHANGED clean
    /\ UNCHANGED <<ledger, disk>>

(* add, lines 85-88: under the lock of this object, which no other thread   *)
(* uses, INSERT INTO memories and commit                                    *)
OtherInsert ==
    /\ other.pc = "insert"
    /\ ledger' = Append(ledger, other.text)
    /\ OSet([other EXCEPT !.pc = "idxadd"])
    /\ UNCHANGED <<disk, clean>>

(* add, lines 90-91: self.index.add(emb), which raises on a vector of       *)
(* another dimension, then _save_index(), and add returns                   *)
OtherIndexAdd ==
    /\ other.pc = "idxadd"
    /\ IF VDim(other.emb) = other.index.d
       THEN LET ix == [other.index EXCEPT !.vecs = Append(@, other.emb)]
            IN /\ OSet([other EXCEPT !.pc = "idle", !.index = ix,
                                     !.text = <<>>, !.emb = NoVec])
               /\ disk' = ix
               /\ UNCHANGED clean
       ELSE /\ OSet([other EXCEPT !.pc = "idle", !.text = <<>>, !.emb = NoVec])
            /\ clean' = FALSE
            /\ UNCHANGED disk
    /\ UNCHANGED ledger

MultiNext ==
    \/ AddCall(Session1)
    \/ AddEmbed(Session1)
    \/ AddSetDim(Session1)
    \/ AddNewIndex(Session1)
    \/ AddAcquire(Session1)
    \/ AddInsert(Session1)
    \/ AddIndexAdd(Session1)
    \/ AddSave(Session1)
    \/ SearchCall(Session1)
    \/ SearchEmbed(Session1)
    \/ SearchAcquire(Session1)
    \/ SearchRows(Session1)
    \/ OtherOpen
    \/ OtherAddCall
    \/ OtherEmbed
    \/ OtherInsert
    \/ OtherIndexAdd
    \/ Restart

MultiSpec == MemInit /\ [][MultiNext]_vars

----------------------------------------------------------------------------
(* ChatStore *)

(* a step of thread t inside ChatStore, leaving t at r *)
CSet(t, r) ==
    /\ store = "chat"
    /\ store' = store
    /\ closed' = closed
    /\ cth' = [cth EXCEPT ![t] = r]

(* The call returns or raises: its arguments and locals are dropped, the    *)
(* outcome is kept.                                                         *)
CReturn(t, res) ==
    [cth[t] EXCEPT !.pc = "idle", !.uid = "none", !.role = "none",
                   !.text = <<>>, !.limit = NoLimit, !.res = res]

(* (text or "") *)
OrEmpty(raw) == IF raw = NoText THEN <<>> ELSE raw

(* the text is missing, empty or holds whitespace only *)
IsBlankMsg(raw) == raw = NoText \/ IsBlank(raw)

MsgsInFlight ==
    Cardinality({u \in Threads : cth[u].op = "add_message" /\ cth[u].pc # "idle"})

(* INSERT OR REPLACE: the row of u rewritten with the new created_at *)
InsertOrReplace(tbl, u, ts) == [tbl EXCEPT ![u] = ts]

(* INSERT OR IGNORE INTO sessions(user_id, created_at); user_id is the      *)
(* primary key, so the table is a function of the user_id                   *)
InsertOrIgnore(tbl, u, ts) == IF tbl[u] = 0 - 1 THEN [tbl EXCEPT ![u] = ts] ELSE tbl

(* the role checked only after ensure_session has run *)
AddMessageCallRoleLate(t) ==
    /\ cth[t].pc = "idle"
    /\ \E u \in Uids, role \in Roles, raw \in MsgTexts :
         LET text == Strip(OrEmpty(raw))
             r == [CIdle EXCEPT !.op = "add_message",
                                !.blank = IsBlankMsg(raw),
                                !.badrole = role \notin {"user", "assistant"}]
         IN IF text = <<>>
            THEN CSet(t, [r EXCEPT !.res = "ok"]) /\ UNCHANGED sessions
            ELSE IF role \notin {"user", "assistant"}
            THEN /\ CSet(t, [r EXCEPT !.res = "InvalidRole"])
                 /\ \E ts \in Stamps : sessions' = InsertOrIgnore(sessions, u, ts)
            ELSE /\ Len(messages) + MsgsInFlight < MaxMsgs
                 /\ CSet(t, [r EXCEPT !.pc = "ens", !.uid = u,
                                       !.role = role, !.text = text])
                 /\ UNCHANGED sessions
    /\ UNCHANGED <<messages, clk>>
    /\ UNCHANGED memVars

(* add_message, lines 57-61: strip, return on empty text, check the role;   *)
(* line 63 then enters ensure_session                                       *)
AddMessageCall(t) ==
    /\ cth[t].pc = "idle"
    /\ \E u \in Uids, role \in Roles, raw \in MsgTexts :
         LET text == Strip(OrEmpty(raw))
             r == [CIdle EXCEPT !.op = "add_message",
                                !.blank = IsBlankMsg(raw),
                                !.badrole = role \notin {"user", "assistant"}]
         IN IF text = <<>>
            THEN CSet(t, [r EXCEPT !.res = "ok"])
            ELSE IF role \notin {"user", "assistant"}
            THEN CSet(t, [r EXCEPT !.res = "InvalidRole"])
            ELSE /\ Len(messages) + MsgsInFlight < MaxMsgs
                 /\ CSet(t, [r EXCEPT !.pc = "ens", !.uid = u,
                                       !.role = role, !.text = text])
    /\ UNCHANGED <<sessions, messages, clk>>
    /\ UNCHANGED memVars

(* load_history, line 73: enters ensure_session *)
LoadHistoryCall(t) ==
    /\ cth[t].pc = "idle"
    /\ \E u \in Uids, lim \in Limits :
         CSet(t, [CIdle EXCEPT !.op = "load_history", !.uid = u, !.limit = lim,
                               !.pc = "ens"])
    /\ UNCHANGED <<sessions, messages, clk>>
    /\ UNCHANGED memVars

(* ensure_session called on its own *)
EnsureSessionCall(t) ==
    /\ cth[t].pc = "idle"
    /\ \E u \in Uids :
         CSet(t, [CIdle EXCEPT !.op = "ensure_session", !.uid = u,
                               !.pc = "ens"])
    /\ UNCHANGED <<sessions, messages, clk>>
    /\ UNCHANGED memVars

(* ensure_session, lines 49-54: under the lock, insert or ignore and commit; *)
(* the caller goes on: add_message to line 65, load_history to line 74      *)
EnsureSession(t) ==
    /\ cth[t].pc = "ens"
    /\ clk = NoThread
    /\ IF closed
       THEN /\ CSet(t, CReturn(t, "ProgrammingError"))
            /\ UNCHANGED sessions
       ELSE /\ \E ts \in Stamps :
                 sessions' = InsertOrIgnore(sessions, cth[t].uid, ts)
            /\ CSet(t, IF cth[t].op = "add_message"
                       THEN [cth[t] EXCEPT !.pc = "ins"]
                       ELSE IF cth[t].op = "load_history"
                       THEN [cth[t] EXCEPT !.pc = "sel"]
                       ELSE CReturn(t, "ok"))
    /\ UNCHANGED <<messages, clk>>
    /\ UNCHANGED memVars

(* add_message, lines 65-70: under the lock, INSERT INTO messages with      *)
(* time.time() and commit                                                   *)
AddMessageInsert(t) ==
    /\ cth[t].pc = "ins"
    /\ clk = NoThread
    /\ IF closed
       THEN /\ CSet(t, CReturn(t, "ProgrammingError"))
            /\ UNCHANGED messages
       ELSE /\ \E ts \in Stamps :
                 messages' = Append(messages,
                                    [uid |-> cth[t].uid, role |-> cth[t].role,
                                     text |-> cth[t].text, ts |-> ts])
            /\ CSet(t, CReturn(t, "ok"))
    /\ UNCHANGED <<sessions, clk>>
    /\ UNCHANGED memVars

RECURSIVE InsertByTsFirst(_, _)
(* x put before the rows of equal ts *)
InsertByTsFirst(x, s) ==
    IF s = <<>> THEN <<x>>
    ELSE IF Head(s).ts < x.ts THEN <<Head(s)>> \o InsertByTsFirst(x, Tail(s))
    ELSE <<x>> \o s

RECURSIVE InsertByTs(_, _)
(* x put behind every row whose ts is not larger *)
InsertByTs(x, s) ==
    IF s = <<>> THEN <<x>>
    ELSE IF Head(s).ts <= x.ts THEN <<Head(s)>> \o InsertByTs(x, Tail(s))
    ELSE <<x>> \o s

RECURSIVE OrderByTs(_)
(* ORDER BY ts ASC over the rows of one user: the scan of                   *)
(* idx_messages_user_ts(user_id, ts) yields equal ts in rowid order         *)
OrderByTs(s) ==
    IF s = <<>> THEN <<>>
    ELSE InsertByTs(s[Len(s)], OrderByTs(SubSeq(s, 1, Len(s) - 1)))

RowsOf(u) == SelectSeq(messages, LAMBDA m : m.uid = u)

(* LIMIT n *)
SqlLimit(s, n) == IF n < Len(s) THEN SubSeq(s, 1, n) ELSE s

(* load_history, lines 75-84: the query that runs for a limit argument *)
SelectHistory(u, lim) ==
    IF lim.given /\ lim.n # 0
    THEN SqlLimit(OrderByTs(RowsOf(u)), lim.n)
    ELSE OrderByTs(RowsOf(u))

(* load_history, line 85: the (role, text) pairs of the fetched rows *)
RoleText(rows) == [i \in 1..Len(rows) |-> <<rows[i].role, rows[i].text>>]

(* what load_history returns when thread t runs its query now *)
LoadResult(t) == RoleText(SelectHistory(cth[t].uid, cth[t].limit))

(* load_history, lines 74-85: under the lock, the query runs and            *)
(* LoadResult(t) is returned                                                *)
LoadHistorySelect(t) ==
    /\ cth[t].pc = "sel"
    /\ clk = NoThread
    /\ CSet(t, CReturn(t, IF closed THEN "ProgrammingError" ELSE "ok"))
    /\ UNCHANGED <<sessions, messages, clk>>
    /\ UNCHANGED memVars

(* DELETE FROM messages without the WHERE clause *)
ClearHistoryOfAll(t) ==
    /\ cth[t].pc = "idle"
    /\ clk = NoThread
    /\ \E u \in Uids :
         /\ messages' = <<>>
         /\ CSet(t, [CIdle EXCEPT !.op = "clear_history", !.res = "ok",
                                  !.uid = u])
    /\ UNCHANGED <<sessions, clk>>
    /\ UNCHANGED memVars

(* the session row deleted together with the turns *)
ClearHistoryAndSession(t) ==
    /\ cth[t].pc = "idle"
    /\ clk = NoThread
    /\ \E u \in Uids :
         /\ messages' = SelectSeq(messages, LAMBDA m : m.uid # u)
         /\ sessions' = [sessions EXCEPT ![u] = 0 - 1]
         /\ CSet(t, [CIdle EXCEPT !.op = "clear_history", !.res = "ok",
                                  !.uid = u])
    /\ UNCHANGED clk
    /\ UNCHANGED memVars

(* clear_history, lines 88-90: under the lock, DELETE FROM messages WHERE   *)
(* user_id=? and commit. The record of the thread keeps the user_id of the  *)
(* finished call (history).                                                 *)
ClearHistory(t) ==
    /\ cth[t].pc = "idle"
    /\ clk = NoThread
    /\ \E u \in Uids :
         IF closed
         THEN /\ CSet(t, [CIdle EXCEPT !.op = "clear_history",
                                       !.res = "ProgrammingError", !.uid = u])
              /\ UNCHANGED messages
         ELSE /\ messages' = SelectSeq(messages, LAMBDA m : m.uid # u)
              /\ CSet(t, [CIdle EXCEPT !.op = "clear_history", !.res = "ok",
                                       !.uid = u])
    /\ UNCHANGED <<sessions, clk>>
    /\ UNCHANGED memVars

(* close, lines 93-94: under the lock, con.close() *)
ChatClose(t) ==
    /\ cth[t].pc = "idle"
    /\ clk = NoThread
    /\ store = "chat"
    /\ store' = store
    /\ closed' = TRUE
    /\ cth' = [cth EXCEPT ![t] = [CIdle EXCEPT !.op = "close", !.res = "ok"]]
    /\ UNCHANGED <<sessions, messages, clk>>
    /\ UNCHANGED memVars

ChatNext ==
    \/ \E t \in Threads : AddMessageCall(t)
    \/ \E t \in Threads : LoadHistoryCall(t)
    \/ \E t \in Threads : EnsureSessionCall(t)
    \/ \E t \in Threads : EnsureSession(t)
    \/ \E t \in Threads : AddMessageInsert(t)
    \/ \E t \in Threads : LoadHistorySelect(t)
    \/ \E t \in Threads : ClearHistory(t)

ChatInit == Init /\ store = "chat"

ChatSpec == ChatInit /\ [][ChatNext]_vars

----------------------------------------------------------------------------
(* Both stores: a run exercises one of them *)

Next == MemNext \/ ChatNext

Spec == Init /\ [][Next]_vars

----------------------------------------------------------------------------
(* The calls of both stores, close included, in a process that does not     *)
(* crash, under a fair scheduler: a thread inside a call takes its next     *)
(* step when that step stays possible, the embedding endpoint answers or    *)
(* fails, and a thread that waits for the lock gets it when the lock is     *)
(* free again and again. add and add_message are called while the ledger   *)
(* and the messages table hold fewer than MaxLiveRows rows.                 *)

LiveAddCall(t) ==
    /\ Len(ledger) + AddsInFlight < MaxLiveRows
    /\ AddCall(t)

LiveAddMessageCall(t) ==
    /\ Len(messages) + MsgsInFlight < MaxLiveRows
    /\ AddMessageCall(t)

LiveNext ==
    \/ \E t \in Threads : LiveAddCall(t)
    \/ \E t \in Threads : AddEmbed(t)
    \/ \E t \in Threads : AddSetDim(t)
    \/ \E t \in Threads : AddNewIndex(t)
    \/ \E t \in Threads : AddAcquire(t)
    \/ \E t \in Threads : AddInsert(t)
    \/ \E t \in Threads : AddIndexAdd(t)
    \/ \E t \in Threads : AddSave(t)
    \/ \E t \in Threads : SearchCall(t)
    \/ \E t \in Threads : SearchEmbed(t)
    \/ \E t \in Threads : SearchAcquire(t)
    \/ \E t \in Threads : SearchRows(t)
    \/ \E t \in Threads : CloseCall(t)
    \/ \E t \in Threads : CloseAcquire(t)
    \/ \E t \in Threads : CloseSave(t)
    \/ \E t \in Threads : LiveAddMessageCall(t)
    \/ \E t \in Threads : LoadHistoryCall(t)
    \/ \E t \in Threads : EnsureSessionCall(t)
    \/ \E t \in Threads : EnsureSession(t)
    \/ \E t \in Threads : AddMessageInsert(t)
    \/ \E t \in Threads : LoadHistorySelect(t)
    \/ \E t \in Threads : ClearHistory(t)
    \/ \E t \in Threads : ChatClose(t)

(* the steps of thread t inside a call that wait for nothing *)
ThreadStep(t) ==
    \/ AddEmbed(t) \/ AddSetDim(t) \/ AddNewIndex(t) \/ AddInsert(t)
    \/ AddIndexAdd(t) \/ AddSave(t)
    \/ SearchEmbed(t) \/ SearchRows(t)
    \/ CloseSave(t)
    \/ EnsureSession(t) \/ AddMessageInsert(t) \/ LoadHistorySelect(t)

(* the steps in which thread t acquires the lock of MemoryStore *)
LockStep(t) == AddAcquire(t) \/ SearchAcquire(t) \/ CloseAcquire(t)

Fairness ==
    \A t \in Threads : WF_vars(ThreadStep(t)) /\ SF_vars(LockStep(t))

LiveSpec == Init /\ [][LiveNext]_vars /\ Fairness

----------------------------------------------------------------------------
(* Properties of MemoryStore *)

AllIdle == \A t \in Threads : mth[t].pc = "idle"

StoreState == <<ledger, index, dim, disk>>

(* thread t enters a call of op in this step *)
MCalls(t, op) ==
    /\ mth[t].pc = "idle"
    /\ mth'[t] # mth[t]
    /\ mth'[t].op = op

(* C1: starting from the empty store, when every add so far has returned    *)
(* and none is in progress, the index holds as many vectors as the ledger   *)
(* holds rows.                                                              *)
CountConsistency ==
    (clean /\ AllIdle) => NTotal(index) = Len(ledger)

(* the vector add stores for a text *)
IsVectorOf(x, text) == \E d \in Dims : x = Normalize(Embed(text, d))

(* C2: after adds that all returned, concurrent or not, the vector at       *)
(* position i of the index was computed from the text of ledger row i.      *)
PositionalCorrespondence ==
    (clean /\ AllIdle /\ NTotal(index) = Len(ledger)) =>
        \A i \in 1..Len(ledger) : IsVectorOf(index.vecs[i], ledger[i])

(* C3: once an add has returned and so fixed the dimension, an add that     *)
(* fails on the dimension of its embedding has written nothing: no ledger   *)
(* row, no vector, no index file.                                           *)
DimensionEnforcement ==
    \A t \in Threads :
        (acked # {} /\ mth[t].op = "add" /\ mth[t].res = "DimensionMismatch") =>
            mth[t].mut \cap {"ledger", "index", "disk"} = {}

(* C4: every step that changes the ledger, the in-memory index, its         *)
(* dimension or the index file is taken by the thread that holds the lock,  *)
(* and the embedding call is made by a thread that does not hold it.        *)
LockDiscipline ==
    [][ /\ (StoreState' # StoreState /\ boots' = boots) =>
             (mlock # NoThread /\ mth'[mlock] # mth[mlock])
        /\ \A t \in Threads :
             (~mth[t].called /\ mth'[t].called) => mlock # t ]_vars

(* C5: the vector and the text of every add that returned are in the index  *)
(* file and in the ledger from then on, whenever the process is restarted.  *)
AddIsDurable ==
    \A a \in acked :
        /\ \E i \in 1..Len(ledger) : ledger[i] = a[1]
        /\ \E i \in 1..Len(disk.vecs) : disk.vecs[i] = a[2]

(* C6: the step in which the embedding call of add or search fails leaves   *)
(* the ledger, the index, the dimension and the index file as they are, and *)
(* the call has written nothing before it.                                  *)
EmbeddingFailureLeavesNoState ==
    [][ \A t \in Threads :
          (mth[t].pc \in {"embed", "sembed"}
             /\ mth'[t].res = "EmbeddingUnavailable" /\ mth'[t].pc = "idle") =>
            (StoreState' = StoreState /\ mth[t].mut = {} /\ mth'[t].mut = {}) ]_vars

EmbeddingFailureWitness ==
    /\ Len(ledger) > 0
    /\ index.ok
    /\ \E t \in Threads : mth[t].op = "add" /\ mth[t].res = "EmbeddingUnavailable"
    /\ \E t \in Threads : mth[t].op = "search" /\ mth[t].res = "EmbeddingUnavailable"

(* C7: add with empty or whitespace-only text, and add_message with empty,  *)
(* whitespace-only or missing text, return successfully in the step of the  *)
(* call, without an embedding call and without a change to the ledger, the  *)
(* index, the index file, the messages or the sessions.                     *)
EmptyInputIsNoOp ==
    [][ /\ \A t \in Threads :
             (MCalls(t, "add") /\ mth'[t].blank) =>
                /\ mth'[t].pc = "idle" /\ mth'[t].res = "ok"
                /\ ~mth'[t].called
                /\ StoreState' = StoreState
        /\ \A t \in Threads :
             (cth[t].pc = "idle" /\ cth'[t] # cth[t]
                /\ cth'[t].op = "add_message" /\ cth'[t].blank) =>
                /\ cth'[t].pc = "idle" /\ cth'[t].res = "ok"
                /\ sessions' = sessions /\ messages' = messages ]_vars

EmptyInputWitness ==
    \/ /\ Len(ledger) > 0
       /\ \E t \in Threads :
            mth[t].op = "add" /\ mth[t].blank /\ mth[t].res = "ok"
    \/ /\ Len(messages) > 0
       /\ \E t \in Threads :
            cth[t].op = "add_message" /\ cth[t].blank /\ cth[t].res = "ok"

(* C8: a search called while there is no index, or the index holds no       *)
(* vector, returns the empty list in the step of the call, without an       *)
(* embedding call, hence also when the endpoint is down.                    *)
SearchOnEmptyStore ==
    [][ \A t \in Threads :
          (MCalls(t, "search") /\ (~index.ok \/ NTotal(index) = 0)) =>
             /\ mth'[t].pc = "idle" /\ mth'[t].res = "ok"
             /\ mth'[t].out = <<>>
             /\ ~mth'[t].called ]_vars

SearchOnEmptyWitness ==
    /\ index.ok
    /\ NTotal(index) = 0
    /\ \E t \in Threads :
         mth[t].op = "search" /\ mth[t].emp0 /\ mth[t].res = "ok"

----------------------------------------------------------------------------
(* Properties of ChatStore *)

IsSortedByTs(rows) ==
    \A i, j \in 1..Len(rows) : i < j => rows[i].ts <= rows[j].ts

(* the rows of s, each as often as it occurs in s *)
RowCount(s, x) == Cardinality({i \in 1..Len(s) : s[i] = x})
SameRows(a, b) ==
    /\ Len(a) = Len(b)
    /\ \A i \in 1..Len(a) : RowCount(a, a[i]) = RowCount(b, a[i])

(* C9: when load_history runs its query, without a limit it returns exactly *)
(* the stored turns of the user in ascending timestamp order; with a limit  *)
(* n >= 0 it returns the first min(n, number of turns) of them.             *)
HistoryOrderAndLimit ==
    \A t \in Threads :
        cth[t].pc = "sel" =>
            LET all == SelectHistory(cth[t].uid, NoLimit)
                got == SelectHistory(cth[t].uid, cth[t].limit)
                n == cth[t].limit.n
            IN /\ IsSortedByTs(all)
               /\ SameRows(all, RowsOf(cth[t].uid))
               /\ IF cth[t].limit.given
                  THEN /\ Len(got) <= n
                       /\ got = SubSeq(all, 1, IF n < Len(all) THEN n ELSE Len(all))
                  ELSE got = all

(* thread t enters a call of op in this step *)
CCalls(t, op) ==
    /\ cth[t].pc = "idle"
    /\ cth'[t] # cth[t]
    /\ cth'[t].op = op

(* C10, as claimed: add_message with a role other than user or assistant    *)
(* raises InvalidRole whatever the text is.                                 *)
InvalidRoleAlwaysRaises ==
    \A t \in Threads :
        (cth[t].op = "add_message" /\ cth[t].badrole /\ cth[t].pc = "idle") =>
            cth[t].res = "InvalidRole"

(* C10, amended: add_message with a role other than user or assistant ends  *)
(* in the step of the call and writes no message row and no session row; it *)
(* raises InvalidRole when the text has a character that is not whitespace, *)
(* and returns normally when the text is missing, empty or whitespace.      *)
InvalidRoleRaisesOnText ==
    [][ \A t \in Threads :
          (CCalls(t, "add_message") /\ cth'[t].badrole) =>
             /\ cth'[t].pc = "idle"
             /\ cth'[t].res = IF cth'[t].blank THEN "ok" ELSE "InvalidRole"
             /\ sessions' = sessions
             /\ messages' = messages ]_vars

InvalidRoleWitness ==
    /\ Len(messages) > 0
    /\ \E u \in Uids : sessions[u] = 0 - 1
    /\ \E t \in Threads :
         /\ cth[t].op = "add_message" /\ cth[t].badrole
         /\ ~cth[t].blank /\ cth[t].res = "InvalidRole"

(* thread t clears the history of u in this step *)
Clears(t, u) ==
    /\ cth[t].pc = "idle"
    /\ cth'[t].pc = "idle"
    /\ cth'[t].op = "clear_history"
    /\ cth'[t].uid = u
    /\ (cth'[t] # cth[t] \/ messages' # messages)
    /\ \A o \in Threads \ {t} : cth'[o] = cth[o]

(* thread t commits the row of its add_message in this step *)
Inserts(t) == cth[t].pc = "ins" /\ cth'[t].pc = "idle"

(* C11: the step of clear_history(u) leaves no turn of u, so that a         *)
(* load_history(u) that runs its query with no turn of u stored returns the *)
(* empty list, and it leaves the sessions table as it is; an add_message    *)
(* that got past its checks then returns normally, and its (role, text) is  *)
(* in what load_history(u) returns from then on.                            *)
ClearSemantics ==
    [][ /\ \A t \in Threads, u \in Uids :
             Clears(t, u) =>
                /\ RoleText(SelectHistory(u, NoLimit))' = <<>>
                /\ sessions' = sessions
        /\ \A t \in Threads :
             (cth[t].pc = "sel" /\ RowsOf(cth[t].uid) = <<>>) =>
                LoadResult(t) = <<>>
        /\ \A t \in Threads :
             Inserts(t) =>
                /\ cth'[t].res = "ok"
                /\ \E u \in Uids :
                     /\ u = cth[t].uid
                     /\ LET got == RoleText(SelectHistory(u, NoLimit))'
                        IN \E i \in 1..Len(got) :
                             got[i] = <<cth[t].role, cth[t].text>> ]_vars

(* u1 was cleared by one thread; the other thread then added a turn of u1   *)
(* and is about to read the history of u1                                   *)
ClearSemanticsWitness ==
    /\ sessions["u1"] # 0 - 1
    /\ \E t \in Threads :
         cth[t].op = "clear_history" /\ cth[t].uid = "u1" /\ cth[t].pc = "idle"
    /\ \E t \in Threads :
         /\ cth[t].op = "load_history" /\ cth[t].pc = "sel" /\ cth[t].uid = "u1"
         /\ Len(LoadResult(t)) = 1

(* thread t runs the INSERT OR IGNORE of ensure_session in this step *)
Ensures(t) == cth[t].pc = "ens" /\ cth'[t].pc # "ens"

WithTs(s, ts) == SelectSeq(s, LAMBDA m : m.ts = ts)

TurnLifecycleAndIsolation ==
    [][ /\ \A u \in Uids :
             \/ RowsOf(u)' = RowsOf(u)
             \/ \E t \in Threads, ts \in Stamps :
                  /\ Inserts(t)
                  /\ cth[t].uid = u
                  /\ RowsOf(u)' = Append(RowsOf(u),
                                         [uid |-> u, role |-> cth[t].role,
                                          text |-> cth[t].text, ts |-> ts])
             \/ \E t \in Threads :
                  /\ Clears(t, u)
                  /\ RowsOf(u)' = <<>>
        /\ \A t \in Threads :
             cth[t].pc = "sel" =>
                /\ messages' = messages \/ cth'[t] = cth[t]
                /\ ~cth[t].limit.given =>
                     SameRows(SelectHistory(cth[t].uid, cth[t].limit),
                              RowsOf(cth[t].uid)) ]_vars

(* u1 has been cleared after it had a session; the turn of u2 is still      *)
(* stored and a load_history(u2) is about to read it                        *)
TurnLifecycleWitness ==
    /\ sessions["u1"] # 0 - 1
    /\ RowsOf("u1") = <<>>
    /\ Len(RowsOf("u2")) = 1
    /\ \E t \in Threads :
         cth[t].op = "clear_history" /\ cth[t].uid = "u1" /\ cth[t].pc = "idle"
    /\ \E t \in Threads :
         cth[t].pc = "sel" /\ cth[t].uid = "u2" /\ ~cth[t].limit.given

----------------------------------------------------------------------------
(* Properties of MemoryStore.search *)

(* thread t is the only one inside a call *)
OnlyCaller(t) == \A o \in Threads \ {t} : mth[o].pc = "idle"

(* C13: when search maps the positions it got from the index to ledger      *)
(* rows, each position that yields a text points at the ledger row whose    *)
(* text produced the index vector at that position, also after a crash      *)
(* inside add, a restart and further adds.                                  *)
SearchMapsToSource ==
    \A t \in Threads :
        (mth[t].pc = "srows" /\ OnlyCaller(t)) =>
            \A i \in 1..Len(mth[t].idxs) :
                LET p == mth[t].idxs[i]
                IN (0 <= p /\ p < Len(ledger) /\ p < NTotal(index)) =>
                      IsVectorOf(index.vecs[p + 1], ledger[p + 1])

(* the positions of idxs that lie inside a ledger of n rows *)
InRange(idxs, n) == {i \in 1..Len(idxs) : 0 <= idxs[i] /\ idxs[i] < n}

(* C14: index.search hands back k positions; the step that maps them to     *)
(* ledger rows ends the search normally with at most k texts, one for each  *)
(* position that lies inside the ledger and none for the others, and every  *)
(* text is the text of a ledger row.                                        *)
SearchResultBounds ==
    [][ \A t \in Threads :
          (mth[t].pc = "srows" /\ mth'[t].pc = "idle" /\ boots' = boots) =>
             /\ Len(mth[t].idxs) = mth[t].k
             /\ mth'[t].res = "ok"
             /\ Len(mth'[t].out) <= mth[t].k
             /\ Len(mth'[t].out) = Cardinality(InRange(mth[t].idxs, Len(ledger)))
             /\ \A i \in 1..Len(mth'[t].out) :
                  \E j \in 1..Len(ledger) : ledger[j] = mth'[t].out[i] ]_vars

(* a search with k = 2 got one position and the padding -1 from an index    *)
(* of one vector, while the ledger holds two rows                           *)
SearchResultBoundsWitness ==
    /\ Len(ledger) = 2
    /\ NTotal(index) = 1
    /\ \E t \in Threads :
         /\ mth[t].pc = "srows"
         /\ mth[t].k = 2
         /\ mth[t].idxs = <<0, 0 - 1>>

(* ollama_embed's answer for blank text, as add and search would hold it    *)
Degenerate == Normalize(Embed(<<>>, 1))

(* C18: the vector ollama_embed answers for blank text is in no index, in   *)
(* memory or on file, and a search whose query is empty or whitespace only  *)
(* does not get to hand it to index.search: the search is over before the   *)
(* embedding is asked for.                                                  *)
DegenerateNeverUsed ==
    /\ \A i \in 1..NTotal(index) : index.vecs[i] # Degenerate
    /\ \A i \in 1..NTotal(disk) : disk.vecs[i] # Degenerate
    /\ \A t \in Threads :
         (mth[t].op = "search" /\ mth[t].blank) =>
            (~mth[t].called /\ mth[t].pc \in {"idle", "sembed"})

----------------------------------------------------------------------------
(* Properties of several MemoryStore objects *)

(* C19: the index file, the index of the first store object and the index   *)
(* of a second store object on the same files never hold more vectors than  *)
(* the ledger holds rows: at every point inside add, after a crash and      *)
(* restart, and after an add that raised.                                   *)
IndexNotAhead ==
    /\ NTotal(disk) <= Len(ledger)
    /\ NTotal(index) <= Len(ledger)
    /\ NTotal(other.index) <= Len(ledger)

(* after a restart the ledger holds two rows and the file one vector, and   *)
(* the two store objects hold different numbers of vectors                  *)
IndexNotAheadWitness ==
    /\ boots = 1
    /\ Len(ledger) = 2
    /\ NTotal(disk) = 1
    /\ other.pc = "idle"
    /\ NTotal(other.index) # NTotal(index)

----------------------------------------------------------------------------
(* Termination *)

(* the lock of MemoryStore is held only inside a with block *)
LockHeldInsideWith ==
    \A t \in Threads : mlock = t => mth[t].pc \in {"insert", "srows", "closing"}

====
